---- MODULE Spec2Model ----
(***************************************************************************)
(* Booking service of the Flawless Finish site: the JSON booking ledger,   *)
(* the availability calculator, the cash and card booking handlers, the    *)
(* payment gateway and the operator notification.                          *)
(*                                                                         *)
(* Three builds of the server are modelled, selected by env.server:        *)
(*   "v6"    src/server.js lines 1-544                                     *)
(*   "v5"    src/server.js lines 545-1167                                  *)
(*   "local" src/server-local.js                                           *)
(*                                                                         *)
(* Node runs one handler at a time up to its next await, so every action   *)
(* below is one synchronous segment of a handler.  A calendar day is its   *)
(* day number (day mod 7 = 0 is a Sunday); a "YYYY-MM-DD" string is the    *)
(* day number it names.  Strings that are validated are sequences of       *)
(* one-character strings.  createdAt (a timestamp) is not modelled.        *)
(***************************************************************************)
EXTENDS Integers, Sequences, FiniteSets, TLC

VARIABLES env, file, fileState, intents, req, avail, client

vars == <<env, file, fileState, intents, req, avail, client>>

\* ---- bounds of the model -------------------------------------------------
NReq == 2
MaxDate == 1
MaxIntents == 1
MaxLedger == 2
\* availability: the largest "today", the largest small horizon asked for,
\* the largest day with a record in a ledger the calculator starts from
MaxToday == 6
MaxHorizon == 8
MaxBookedDay == 9
MaxCardDate == 2

\* ---- program constants ---------------------------------------------------
DepositCents == 25000
DepositRecorded == 250
MaxDays == 90
DefaultDays == 30
NameMax == 80
PhoneMax == 40
EmailMax == 100
PhoneTailMax == 15

\* ---- encodings of request values ----------------------------------------
\* A date field that is missing from the body: !date is true.
NoDate == -1
\* A date field that is a non-empty string no Date can be parsed from.
Garbage == -2
\* What toYMD returns for such a string: "NaN-NaN-NaN".
NaNYMD == -3
\* A missing paymentIntentId / a record without stripePaymentId.
NoIntent == 0

Slots == 1..NReq
Days == 1..MaxDate
IntentIds == 1..MaxIntents
DateInputs == Days \cup {NoDate, Garbage}
\* the days a card customer picks from
CardDays == 1..MaxCardDate

Min(a, b) == IF a < b THEN a ELSE b

\* ---- strings -------------------------------------------------------------
Digits == {"0", "1", "2", "3", "4", "5", "6", "7", "8", "9"}
Space == {" "}
PhoneSeparators == {" ", "-", "(", ")"}

RECURSIVE Remove(_, _)
\* s.replace(/[...]/g, ''): s without the characters of set cs.
Remove(s, cs) ==
  IF s = <<>> THEN <<>>
  ELSE IF Head(s) \in cs THEN Remove(Tail(s), cs)
       ELSE <<Head(s)>> \o Remove(Tail(s), cs)

RECURSIVE TrimLeft(_)
TrimLeft(s) ==
  IF s # <<>> /\ Head(s) \in Space THEN TrimLeft(Tail(s)) ELSE s

RECURSIVE TrimRight(_)
TrimRight(s) ==
  IF s # <<>> /\ s[Len(s)] \in Space THEN TrimRight(SubSeq(s, 1, Len(s) - 1)) ELSE s

\* String.prototype.trim
Trim(s) == TrimRight(TrimLeft(s))

\* String.prototype.slice(0, n)
Slice(s, n) == SubSeq(s, 1, Min(Len(s), n))

\* /^[\+]?[1-9][\d]{0,15}$/ on the phone without separators
validatePhone(phone) ==
  LET t == Remove(phone, PhoneSeparators)
      u == IF t # <<>> /\ Head(t) = "+" THEN Tail(t) ELSE t
  IN  /\ u # <<>>
      /\ Head(u) \in Digits \ {"0"}
      /\ Len(u) - 1 <= PhoneTailMax
      /\ \A i \in 2..Len(u) : u[i] \in Digits

\* /^[^\s@]+@[^\s@]+\.[^\s@]+$/
validateEmail(email) ==
  /\ \A i \in 1..Len(email) : email[i] \notin Space
  /\ \E a \in 2..Len(email) :
       /\ email[a] = "@"
       /\ \A i \in 1..Len(email) : email[i] = "@" => i = a
       /\ \E d \in (a + 2)..(Len(email) - 1) : email[d] = "."

\* String(input || '').slice(0, maxLength).trim()
sanitizeInput(input, maxLength) == Trim(Slice(input, maxLength))

\* ---- dates ---------------------------------------------------------------
TimeZones == {-8, 0}

\* new Date("YYYY-MM-DD") is midnight UTC of that day; the local getters of
\* toYMD read it in the server's zone, where west of UTC it is still the
\* evening of the day before.
toYMD(d, tz) ==
  IF d \in Days \cup CardDays THEN (IF tz < 0 THEN d - 1 ELSE d) ELSE NaNYMD

\* toYMD of a Date object that availability set to local midnight.
toYMDLocal(day) == day

\* String(date).slice(0, 10) (v5)
Slice10(d) == d

\* Date.prototype.getDay: 0 Sun .. 6 Sat
getDay(day) == day % 7

\* ---- environment of the process -----------------------------------------
Servers == {"v6", "v5", "local"}
Hosted == {"v6", "v5"}

\* process.env and the host: which build runs, the server's time zone,
\* whether STRIPE_SECRET_KEY and EMAIL_USER/EMAIL_PASS are set (the local
\* server reads neither).
Envs ==
  { e \in [server : Servers, tz : TimeZones, stripe : BOOLEAN, mail : BOOLEAN] :
      e.server = "local" => ~e.stripe /\ ~e.mail }

\* ---- request bodies ------------------------------------------------------
NameAl == <<"A", "l">>
PhoneGood == <<"+", "1", " ", "5">>
PhoneZero == <<"0", "5">>
\* A name that is not a string (a number, an object): truthy, and without
\* the methods of a string.
NonString == <<"{}">>
EmailGood == <<"a", "@", "b", ".", "c">>
EmailBad == <<"a", "@", "b">>

Body(d, name, phone, email, i) ==
  [date |-> d, name |-> name, phone |-> phone, email |-> email,
   paymentIntentId |-> i]

\* Bodies of book-cash that pass every check: one for each date a client can
\* send (a day, or a string that is no date), and one with an email address.
GoodBodies ==
  { Body(d, NameAl, PhoneGood, <<>>, NoIntent) : d \in Days \cup {Garbage} }
    \cup { Body(1, NameAl, PhoneGood, EmailGood, NoIntent) }

\* One body failing each check of book-cash and create-payment-intent.
BadBodies ==
  { Body(NoDate, NameAl, PhoneGood, <<>>, NoIntent),
    Body(1, <<>>, PhoneGood, <<>>, NoIntent),
    Body(1, NameAl, PhoneZero, <<>>, NoIntent),
    Body(1, NameAl, PhoneGood, EmailBad, NoIntent),
    Body(1, NonString, PhoneGood, <<>>, NoIntent) }

CashBodies == GoodBodies \cup BadBodies

\* bodies of create-payment-intent
CreateBodies ==
  { Body(d, NameAl, PhoneGood, <<>>, NoIntent) : d \in Days }
    \cup { Body(1, NameAl, PhoneGood, EmailGood, NoIntent) } \cup BadBodies

\* bodies of confirm-payment: every day with every payment intent id, a body
\* without an id, a body without a date and a body without a name
ConfirmBodies ==
  { Body(d, NameAl, PhoneGood, <<>>, i) : d \in Days, i \in IntentIds }
    \cup { Body(1, NameAl, PhoneGood, <<>>, NoIntent),
           Body(NoDate, NameAl, PhoneGood, <<>>, 1),
           Body(1, <<>>, PhoneGood, <<>>, 1) }

\* the bodies of a card customer: create-payment-intent for a day, and
\* confirm-payment for a day with an intent id
CardCreateBodies == { Body(d, NameAl, PhoneGood, <<>>, NoIntent) : d \in CardDays }
CardConfirmBodies ==
  { Body(d, NameAl, PhoneGood, <<>>, i) : d \in CardDays, i \in IntentIds }

NoBody ==
  [date |-> NoDate, name |-> <<>>, phone |-> <<>>, email |-> <<>>,
   paymentIntentId |-> NoIntent]

\* ---- ledger store --------------------------------------------------------
\* What the file holds: nothing while it does not exist.
Ledger == IF fileState = "ok" THEN file ELSE <<>>

\* fs.readFileSync / JSON.parse and fs.writeFileSync succeed or throw.
ReadOutcomes == BOOLEAN
WriteOutcomes == BOOLEAN

\* readBookings: [] when the file does not exist, cannot be read (rok is
\* FALSE) or cannot be parsed.
readBookings(rok) == IF rok THEN Ledger ELSE <<>>

\* writeBookings: rewrites the whole file; a failure (wok is FALSE) is
\* swallowed and leaves the file as it was.
writeBookings(bookings, wok) ==
  /\ file' = IF wok THEN bookings ELSE file
  /\ fileState' = IF wok THEN "ok" ELSE fileState

\* A duplicate check that looks at the first record only.
HasDateFirstOnly(bookings, d) == bookings # <<>> /\ bookings[1].date = d

\* bookings.some(b => b.date === d)
HasDate(bookings, d) == \E i \in 1..Len(bookings) : bookings[i].date = d

\* number of records of the ledger with date d
CountDate(bookings, d) == Cardinality({ i \in 1..Len(bookings) : bookings[i].date = d })

\* ---- requests and responses ---------------------------------------------
\* A slot holds one request: where its handler is (pc: suspended at an
\* await, or "done" once it has answered), which endpoint it serves, the
\* body while the handler still needs it, the sanitized date and the payment
\* intent id, and the response res.status(code).json({message, ...}).
Idle ==
  [pc |-> "idle", kind |-> "none", body |-> NoBody, date |-> NoDate,
   id |-> NoIntent, code |-> 0, msg |-> ""]

\* the handler of slot p is suspended at an await
Waiting(p, pc, kind, b, date, id) ==
  [req EXCEPT ![p] = [pc |-> pc, kind |-> kind, body |-> b, date |-> date,
                      id |-> id, code |-> 0, msg |-> ""]]

\* the request of slot p is answered
Answered(p, kind, date, code, msg, id) ==
  [req EXCEPT ![p] = [pc |-> "done", kind |-> kind, body |-> NoBody,
                      date |-> date, id |-> id, code |-> code, msg |-> msg]]

\* An error left the async handler of slot p with no try/catch around it:
\* the promise of the handler is rejected, express never hears of it and no
\* response is sent (a Node that ends the process on an unhandled rejection
\* answers nobody either).
Escaped(p, kind) ==
  [req EXCEPT ![p] = [pc |-> "escaped", kind |-> kind, body |-> NoBody,
                      date |-> NoDate, id |-> NoIntent, code |-> 0, msg |-> ""]]

\* A new request takes the first slot that holds no suspended handler.
Free(p) ==
  /\ req[p].pc \in {"idle", "done", "escaped"}
  /\ \A q \in 1..(p - 1) : req[q].pc \notin {"idle", "done", "escaped"}

\* query.days of GET /api/availability: absent, a string parseInt makes
\* nothing of, or the decimal text of the integer n
Query(kind, n) == [kind |-> kind, n |-> n]

\* no availability request answered yet
NoAvail ==
  [asked |-> FALSE, today |-> 0, query |-> Query("absent", 0),
   days |-> <<>>, available |-> <<>>]

\* The page of the browser client before a day is chosen: no selectedDate,
\* no submit listener on the payment form, no Stripe elements, neither
\* setupStripe nor handlePaymentSubmit running.
NoClient ==
  [selectedDate |-> NoDate, listener |-> FALSE, elements |-> FALSE,
   setup |-> "idle", submit |-> "idle", error |-> FALSE, id |-> NoIntent,
   date |-> NoDate]

\* metadata of stripe.paymentIntents.create: v6 sends the sanitized name,
\* phone and email along with the date and the service label, v5 the date
\* and the label only
ServiceLabel == "Flawless Finish Ceramic Coating Deposit"
Metadata(b) ==
  IF env.server = "v6"
    THEN [date |-> toYMD(b.date, env.tz), name |-> sanitizeInput(b.name, NameMax),
          phone |-> sanitizeInput(b.phone, PhoneMax),
          email |-> sanitizeInput(b.email, EmailMax), service |-> ServiceLabel]
    ELSE [date |-> Slice10(b.date), service |-> ServiceLabel]

\* an intent id the gateway has not given out yet
NoIntentYet ==
  [status |-> "none", date |-> NoDate, amount |-> 0,
   metadata |-> [date |-> NoDate, service |-> ""]]

Init ==
  /\ env \in Envs
  /\ file = <<>>
  /\ fileState = "absent"
  /\ intents = [i \in IntentIds |-> NoIntentYet]
  /\ req = [p \in Slots |-> Idle]
  /\ avail = NoAvail
  /\ client = NoClient

\* ---- validation and records ----------------------------------------------
\* name.trim() of a name that is not a string: TypeError
Throws == "TypeError: name.trim is not a function"

\* The checks of book-cash and create-payment-intent (v6), in order; "ok"
\* when the body passes.
ValidateV6(b) ==
  IF b.date = NoDate THEN "Please select a date."
  ELSE IF b.name = NonString THEN Throws
  ELSE IF b.name = <<>> \/ Len(Trim(b.name)) < 2
    THEN "Please enter a valid name (minimum 2 characters)."
  ELSE IF b.phone = <<>> \/ ~validatePhone(b.phone)
    THEN "Please enter a valid phone number."
  ELSE IF b.email # <<>> /\ ~validateEmail(b.email)
    THEN "Please enter a valid email address."
  ELSE "ok"

\* The checks of book-cash and create-payment-intent (v5).
ValidateV5(b) ==
  IF b.date = NoDate THEN "Please select a date."
  ELSE IF b.name = NonString THEN Throws
  ELSE IF b.name = <<>> \/ Len(Trim(b.name)) = 0 THEN "Please enter your name."
  ELSE IF b.phone = <<>> \/ Len(Trim(b.phone)) = 0 THEN "Please enter your phone number."
  ELSE "ok"

\* the checks of each build on every body a client sends, computed once
Validation ==
  [sv \in Hosted |->
     [b \in CashBodies \cup CreateBodies \cup CardCreateBodies |->
        IF sv = "v6" THEN ValidateV6(b) ELSE ValidateV5(b)]]

Validate(b) == Validation[env.server][b]

\* const sanitizedDate = toYMD(date) (v6), String(date).slice(0, 10) (v5)
SanitizedDate(b) == IF env.server = "v6" THEN toYMD(b.date, env.tz) ELSE Slice10(b.date)

\* the record v6 pushes (stripePaymentId is NoIntent on a cash record)
RecordV6(date, b, method, deposit, id) ==
  [date |-> date, name |-> sanitizeInput(b.name, NameMax),
   phone |-> sanitizeInput(b.phone, PhoneMax),
   email |-> sanitizeInput(b.email, EmailMax),
   method |-> method, deposit |-> deposit, stripePaymentId |-> id]

\* the record v5 pushes: the date and non-personal details only
RecordV5(date, method, deposit) ==
  [date |-> date, method |-> method, deposit |-> deposit]

\* the record the local server pushes
RecordLocal(b, paymentMethod, amount) ==
  [date |-> b.date, name |-> b.name, phone |-> b.phone,
   paymentMethod |-> paymentMethod, amount |-> amount, status |-> "confirmed"]

CashSaved == "Cash reservation saved."
CardSaved == "Payment confirmed and booking saved."
AlreadyBooked == "That day is already booked."
Unavailable == "Payment system temporarily unavailable. Please contact us directly."
NotCompleted == "Payment not completed."

\* The handler of slot p answers; nothing else changes.
Reply(p, kind, date, code, msg, id) ==
  /\ req' = Answered(p, kind, date, code, msg, id)
  /\ UNCHANGED <<env, file, fileState, intents, avail, client>>

\* return res.json({ success: true, ... }) of a booking
Success(p, kind, date, id) ==
  Answered(p, kind, date, 200, IF kind = "cash" THEN CashSaved ELSE CardSaved, id)

\* bookings.push(rec); writeBookings(bookings); await sendEmailNotification:
\* without email credentials the notification returns at once and the
\* handler answers, otherwise the message is handed to the transport and
\* the handler waits for it.
Book(p, kind, b, date, rec, bookings, wok, id) ==
  /\ writeBookings(Append(bookings, rec), wok)
  /\ req' = IF env.mail THEN Waiting(p, "mail", kind, b, date, id)
            ELSE Success(p, kind, date, id)
  /\ UNCHANGED <<env, intents, avail, client>>

\* ---- POST /api/book-cash -------------------------------------------------
BookCashHosted(p, b, rok, wok) ==
  LET sanitizedDate == SanitizedDate(b)
      bookings == readBookings(rok)
      v == Validate(b)
      rec == IF env.server = "v6"
               THEN RecordV6(sanitizedDate, b, "cash", 0, NoIntent)
               ELSE RecordV5(sanitizedDate, "cash", 0)
  IN  IF v = Throws
        THEN IF env.server = "v6"
               THEN Reply(p, "cash", NoDate, 500, "Cash booking failed.", NoIntent)
               ELSE /\ req' = Escaped(p, "cash")
                    /\ UNCHANGED <<env, file, fileState, intents, avail, client>>
      ELSE IF v # "ok" THEN Reply(p, "cash", NoDate, 400, v, NoIntent)
      ELSE IF HasDate(bookings, sanitizedDate)
        THEN Reply(p, "cash", sanitizedDate, 409, AlreadyBooked, NoIntent)
      ELSE Book(p, "cash", b, sanitizedDate, rec, bookings, wok, NoIntent)

BookCashLocal(p, b, rok, wok) ==
  LET bookings == readBookings(rok)
  IN  /\ Len(bookings) < MaxLedger
      /\ writeBookings(Append(bookings, RecordLocal(b, "cash", 0)), wok)
      /\ req' = Answered(p, "cash", b.date, 200,
                         "Mock cash booking created successfully", NoIntent)
      /\ UNCHANGED <<env, intents, avail, client>>

BookCash(p) ==
  /\ Free(p)
  /\ \E b \in CashBodies, rok \in ReadOutcomes, wok \in WriteOutcomes :
       IF env.server \in Hosted THEN BookCashHosted(p, b, rok, wok)
       ELSE BookCashLocal(p, b, rok, wok)

\* ---- POST /api/create-payment-intent -------------------------------------
CreateHosted(p, b, rok) ==
  LET v == Validate(b)
      sanitizedDate == SanitizedDate(b)
  IN  IF ~env.stripe THEN Reply(p, "create", NoDate, 500, Unavailable, NoIntent)
      ELSE IF v = Throws
        THEN Reply(p, "create", NoDate, 500, "Payment processing error.", NoIntent)
      ELSE IF v # "ok" THEN Reply(p, "create", NoDate, 400, v, NoIntent)
      ELSE IF env.server = "v6" /\ HasDate(readBookings(rok), sanitizedDate)
        THEN Reply(p, "create", sanitizedDate, 409, AlreadyBooked, NoIntent)
      ELSE /\ req' = Waiting(p, "create", "create", b, sanitizedDate, NoIntent)
           /\ UNCHANGED <<env, file, fileState, intents, avail, client>>

\* the mock of the local server
CreateLocal(p) ==
  Reply(p, "create", NoDate, 200, "", NoIntent)

CreatePaymentIntent(p) ==
  /\ Free(p)
  /\ IF env.server \in Hosted
       THEN \E b \in CreateBodies, rok \in ReadOutcomes : CreateHosted(p, b, rok)
       ELSE CreateLocal(p)

\* A create-payment-intent that holds the date with a ledger record.
CreateSettleReserving(p) ==
  /\ req[p].pc = "create"
  /\ \E i \in IntentIds :
       /\ intents[i].status = "none"
       /\ intents' = [intents EXCEPT ![i] =
            [status |-> "requires_payment_method", date |-> req[p].date,
             amount |-> DepositCents, metadata |-> Metadata(req[p].body)]]
       /\ req' = Answered(p, "create", req[p].date, 200, "", i)
  /\ writeBookings(Append(Ledger, RecordV5(req[p].date, "hold", 0)), TRUE)
  /\ UNCHANGED <<env, avail, client>>

\* What stripe.paymentIntents.create can do: make an intent and return it,
\* throw (gateway unreachable, key rejected), or resolve with data that is
\* no payment intent (an object without id and client_secret).
CreateOutcomes == {"intent", "throws", "malformed"}

\* stripe.paymentIntents.create settles with outcome g.  The handler reads
\* client_secret and id off whatever was returned and answers with success;
\* only a throw reaches its catch.
CreateSettleWith(p, g) ==
  /\ req[p].pc = "create"
  /\ IF g = "intent"
       THEN \E i \in IntentIds :
              /\ intents[i].status = "none"
              /\ \A j \in IntentIds : intents[j].status = "none" => i <= j
              /\ intents' = [intents EXCEPT ![i] =
                   [status |-> "requires_payment_method", date |-> req[p].date,
                    amount |-> DepositCents, metadata |-> Metadata(req[p].body)]]
              /\ req' = Answered(p, "create", req[p].date, 200, "", i)
     ELSE IF g = "throws"
       THEN /\ req' = Answered(p, "create", NoDate, 500, "Payment processing error.", NoIntent)
            /\ UNCHANGED intents
     ELSE /\ req' = Answered(p, "create", req[p].date, 200, "", NoIntent)
          /\ UNCHANGED intents
  /\ UNCHANGED <<env, file, fileState, avail, client>>

CreateSettle(p) == \E g \in CreateOutcomes : CreateSettleWith(p, g)

\* ---- the payment gateway --------------------------------------------------
\* The customer pays or abandons an intent at the gateway.
GatewayAdvance ==
  \E i \in IntentIds, st \in {"succeeded", "canceled"} :
    /\ intents[i].status = "requires_payment_method"
    /\ intents' = [intents EXCEPT ![i].status = st]
    /\ UNCHANGED <<env, file, fileState, req, avail, client>>

\* ---- POST /api/confirm-payment -------------------------------------------
ConfirmHosted(p, b) ==
  IF ~env.stripe THEN Reply(p, "confirm", NoDate, 500, Unavailable, NoIntent)
  ELSE IF b.paymentIntentId = NoIntent \/ b.date = NoDate
    THEN Reply(p, "confirm", NoDate, 400, "Missing payment or date information.", NoIntent)
  ELSE /\ req' = Waiting(p, "retrieve", "confirm", b, NoDate, b.paymentIntentId)
       /\ UNCHANGED <<env, file, fileState, intents, avail, client>>

ConfirmLocal(p, b, rok, wok) ==
  LET bookings == readBookings(rok)
  IN  /\ Len(bookings) < MaxLedger
      /\ writeBookings(Append(bookings, RecordLocal(b, "card", DepositRecorded)), wok)
      /\ req' = Answered(p, "confirm", b.date, 200,
                         "Mock booking created successfully", NoIntent)
      /\ UNCHANGED <<env, intents, avail, client>>

ConfirmPayment(p) ==
  /\ Free(p)
  /\ IF env.server \in Hosted
       THEN \E b \in ConfirmBodies : ConfirmHosted(p, b)
       ELSE \E b \in ConfirmBodies, rok \in ReadOutcomes, wok \in WriteOutcomes :
              ConfirmLocal(p, b, rok, wok)

\* A status check that turns away canceled payments only.
IsNotCanceled(paymentIntent) == paymentIntent.status # "canceled"

\* paymentIntent.status !== 'succeeded'
IsSucceeded(paymentIntent) == paymentIntent.status = "succeeded"

\* stripe.paymentIntents.retrieve settles (with the intent when gok, or it
\* throws: no such intent, gateway unreachable) and the handler runs on to
\* its next await or to its answer.
ConfirmSettleWith(p, gok, rok, wok) ==
  LET b == req[p].body
      id == req[p].id
      sanitizedDate == SanitizedDate(b)
      bookings == readBookings(rok)
      rec == IF env.server = "v6"
               THEN RecordV6(sanitizedDate, b, "card", DepositRecorded, id)
               ELSE RecordV5(sanitizedDate, "card", DepositRecorded)
  IN  IF ~gok \/ intents[id].status = "none"
        THEN Reply(p, "confirm", NoDate, 500, "Payment confirmation failed.", id)
      ELSE IF ~IsSucceeded(intents[id])
        THEN Reply(p, "confirm", NoDate, 400, NotCompleted, id)
      ELSE IF HasDate(bookings, sanitizedDate)
        THEN Reply(p, "confirm", sanitizedDate, 409, AlreadyBooked, id)
      ELSE Book(p, "confirm", b, sanitizedDate, rec, bookings, wok, id)

ConfirmSettle(p) ==
  /\ req[p].pc = "retrieve"
  /\ \E gok \in BOOLEAN, rok \in ReadOutcomes, wok \in WriteOutcomes :
       ConfirmSettleWith(p, gok, rok, wok)

\* ---- the notification returns --------------------------------------------
\* A notification whose failure reaches the handler's catch.
MailSettleThrowing(p, mok) ==
  /\ req[p].pc \in {"mail", "mail2"}
  /\ req' = IF mok THEN Success(p, req[p].kind, req[p].date, req[p].id)
            ELSE Answered(p, req[p].kind, NoDate, 500, "Cash booking failed.", req[p].id)
  /\ UNCHANGED <<env, file, fileState, intents, avail, client>>

\* A handler that writes its record once the notification has returned.
MailSettleWriting(p, mok) ==
  /\ req[p].pc \in {"mail", "mail2"}
  /\ writeBookings(Append(Ledger, RecordV5(req[p].date, "cash", 0)), TRUE)
  /\ req' = Success(p, req[p].kind, req[p].date, req[p].id)
  /\ UNCHANGED <<env, intents, avail, client>>

\* transporter.sendMail settles: sent (mok), or it failed or timed out and
\* the catch of sendEmailNotification logged the error; either way the
\* handler answers with success.  v5 then sends the customer's confirmation
\* when an email address was supplied.
MailSettleWith(p, mok) ==
  /\ req[p].pc \in {"mail", "mail2"}
  /\ LET r == req[p]
     IN  req' = IF env.server = "v5" /\ r.pc = "mail" /\ Trim(r.body.email) # <<>>
                  THEN Waiting(p, "mail2", r.kind, r.body, r.date, r.id)
                  ELSE Success(p, r.kind, r.date, r.id)
  /\ UNCHANGED <<env, file, fileState, intents, avail, client>>

MailSettle(p) == \E mok \in BOOLEAN : MailSettleWith(p, mok)

\* setTimeout(() => reject(new Error('Email send timeout after 10 seconds')),
\* 10000) raced against sendMail (v5 only): the timer ends the wait whatever
\* the transport does, the catch logs the error and the handler goes on as
\* after a failed send.
MailTimeout(p) ==
  /\ env.server = "v5"
  /\ MailSettleWith(p, FALSE)

Next ==
  \/ \E p \in Slots :
       \/ BookCash(p)
       \/ CreatePaymentIntent(p)
       \/ CreateSettle(p)
       \/ ConfirmPayment(p)
       \/ ConfirmSettle(p)
       \/ MailSettle(p)
       \/ MailTimeout(p)
  \/ GatewayAdvance

Spec == Init /\ [][Next]_vars

\* ---- GET /api/availability ----------------------------------------------
Todays == 0..MaxToday
Queries ==
  {Query("absent", 0), Query("text", 0)}
    \cup {Query("int", n) :
            n \in (-1..MaxHorizon) \cup {MaxDays, MaxDays + 1, MaxDays + DefaultDays}}

\* parseInt(req.query.days || '30', 10): NaN for a string without digits
parseDays(q) ==
  IF q.kind = "absent" THEN [nan |-> FALSE, n |-> DefaultDays]
  ELSE IF q.kind = "text" THEN [nan |-> TRUE, n |-> 0]
  ELSE [nan |-> FALSE, n |-> q.n]

\* parseInt(req.query.days) || 30 (local): NaN and 0 give the default
parseDaysLocal(q) == IF q.kind # "int" \/ q.n = 0 THEN DefaultDays ELSE q.n

\* The offset the loop of v6 ends with: i <= Math.min(days, 90), false at
\* once when days is NaN.
LastOffsetV6(q) ==
  IF parseDays(q).nan THEN 0 ELSE Min(parseDays(q).n, MaxDays)

\* The offset the loop of v5 ends with: i < days, no cap.
LastOffsetV5(q) ==
  IF parseDays(q).nan THEN -1 ELSE parseDays(q).n - 1

\* A loop that lists the closure day like any other.
\* the offsets for (let i = first; i <= last; i++) runs through, in order
Offsets(first, last) ==
  [k \in 1..(IF last < first THEN 0 ELSE last - first + 1) |-> first + k - 1]

\* A loop that lists the closure day like any other.
AvailLoopNoSkip(i, last, now, bookings) ==
  [k \in 1..Len(Offsets(i, last)) |->
     [date |-> toYMDLocal(now + Offsets(i, last)[k]),
      booked |-> HasDate(bookings, toYMDLocal(now + Offsets(i, last)[k]))]]

\* A loop that walks the offsets from the last down to the first.
AvailLoopDescending(i, last, now, bookings) ==
  LET open == SelectSeq(Offsets(i, last), LAMBDA o : getDay(now + o) # 0)
  IN [k \in 1..Len(open) |->
        [date |-> toYMDLocal(now + open[Len(open) + 1 - k]),
         booked |-> HasDate(bookings, toYMDLocal(now + open[Len(open) + 1 - k]))]]

\* The loop of the hosted builds: the offsets whose day is a Sunday are
\* skipped (continue), every other pushes {date, booked}.
AvailLoop(i, last, now, bookings) ==
  LET open == SelectSeq(Offsets(i, last), LAMBDA o : getDay(now + o) # 0)
  IN [k \in 1..Len(open) |->
        [date |-> toYMDLocal(now + open[k]),
         booked |-> HasDate(bookings, toYMDLocal(now + open[k]))]]

\* date.toISOString().split('T')[0] (local): the UTC date of the local
\* instant, the next day when the local clock is late in a zone west of UTC
toISODate(day, tz, late) == IF tz < 0 /\ late THEN day + 1 ELSE day

\* the loop of the local server: every day from tomorrow on that has no
\* record, Sundays too
AvailLoopLocal(i, last, today, late, bookings) ==
  LET free == SelectSeq(Offsets(i, last),
                 LAMBDA o : ~HasDate(bookings, toISODate(today + o, env.tz, late)))
  IN [k \in 1..Len(free) |-> toISODate(today + free[k], env.tz, late)]

\* res.json({ days: out }) of the hosted builds, res.json({ available })
\* of the local server
AvailabilityAnswer(today, late, q, rok) ==
  [asked |-> TRUE, today |-> today, query |-> q,
   days |->
     IF env.server = "v6"
       THEN AvailLoop(1, LastOffsetV6(q), today, readBookings(rok))
     ELSE IF env.server = "v5"
       THEN AvailLoop(0, LastOffsetV5(q), today, readBookings(rok))
     ELSE <<>>,
   available |->
     IF env.server = "local"
       THEN AvailLoopLocal(1, parseDaysLocal(q), today, late, readBookings(rok))
     ELSE <<>>]

\* The handler: today is the day of the server's clock (late: the clock is
\* past the hour at which UTC is a day ahead), q is query.days.  The handler
\* keeps no state, so one request per behaviour is followed.
Availability(today, late, q, rok) ==
  /\ ~avail.asked
  /\ avail' = AvailabilityAnswer(today, late, q, rok)
  /\ UNCHANGED <<env, file, fileState, intents, req, client>>

\* The ledgers the calculator is asked about: up to MaxLedger records, one
\* per date on the hosted builds, written by the build that runs.
BookedDays == 1..MaxBookedDay
RecordOf(sv, d) ==
  IF sv = "v6" THEN RecordV6(d, Body(d, NameAl, PhoneGood, <<>>, NoIntent), "cash", 0, NoIntent)
  ELSE IF sv = "v5" THEN RecordV5(d, "cash", 0)
  ELSE RecordLocal(Body(d, NameAl, PhoneGood, <<>>, NoIntent), "cash", 0)

LedgersOf(sv) ==
  {<<>>} \cup { <<RecordOf(sv, d)>> : d \in BookedDays }
         \cup { <<RecordOf(sv, d), RecordOf(sv, e)>> : d \in {2}, e \in {MaxBookedDay - 2} }

InitAvail ==
  /\ env \in {e \in Envs : ~e.stripe /\ ~e.mail}
  /\ fileState \in {"absent", "ok"}
  /\ file \in IF fileState = "absent" THEN {<<>>} ELSE LedgersOf(env.server)
  /\ intents = [i \in IntentIds |-> NoIntentYet]
  /\ req = [p \in Slots |-> Idle]
  /\ avail = NoAvail
  /\ client = NoClient

NextAvail ==
  \E today \in Todays, late \in BOOLEAN, q \in Queries, rok \in ReadOutcomes :
    Availability(today, late, q, rok)

SpecAvail == InitAvail /\ [][NextAvail]_vars

\* ---- GET /api/stripe-key --------------------------------------------------
\* process.env.STRIPE_PUBLISHABLE_KEY when it is set
PublishableKey == "pk_live"
LocalMockKey == "pk_test_mock_key_for_local_development"

\* the environments with the publishable key set (pk) or not
EnvsKey ==
  { [server |-> e.server, tz |-> e.tz, stripe |-> e.stripe, mail |-> e.mail,
     pk |-> k] : e \in Envs, k \in BOOLEAN }

\* The handler: msg holds the publishableKey of a 200 and the error of a 500.
StripeKey(p) ==
  /\ Free(p)
  /\ IF env.server = "v6"
       THEN IF ~env.pk
              THEN Reply(p, "key", NoDate, 500, "Stripe not configured", NoIntent)
              ELSE Reply(p, "key", NoDate, 200, PublishableKey, NoIntent)
     ELSE IF env.server = "v5"
       THEN Reply(p, "key", NoDate, 200, IF env.pk THEN PublishableKey ELSE "", NoIntent)
     ELSE Reply(p, "key", NoDate, 200, LocalMockKey, NoIntent)

\* The card set-up of a page: it asks for the key, then creates intents.
InitKey ==
  /\ env \in EnvsKey
  /\ file = <<>>
  /\ fileState = "absent"
  /\ intents = [i \in IntentIds |-> NoIntentYet]
  /\ req = [p \in Slots |-> Idle]
  /\ avail = NoAvail
  /\ client = NoClient

NextKey ==
  \E p \in Slots :
    \/ StripeKey(p)
    \/ CreatePaymentIntent(p)
    \/ CreateSettle(p)

SpecKey == InitKey /\ [][NextKey]_vars

\* ---- the card path with a choice of days ---------------------------------
\* create-payment-intent and confirm-payment of the hosted builds with the
\* gateway configured, for customers who choose among CardDays.
CardCreate(p) ==
  /\ Free(p)
  /\ \E b \in CardCreateBodies, rok \in ReadOutcomes : CreateHosted(p, b, rok)

CardConfirm(p) ==
  /\ Free(p)
  /\ \E b \in CardConfirmBodies : ConfirmHosted(p, b)

InitCard ==
  /\ env \in {e \in Envs : e.server \in Hosted /\ e.stripe /\ ~e.mail}
  /\ file = <<>>
  /\ fileState = "absent"
  /\ intents = [i \in IntentIds |-> NoIntentYet]
  /\ req = [p \in Slots |-> Idle]
  /\ avail = NoAvail
  /\ client = NoClient

NextCard ==
  \/ \E p \in Slots :
       \/ CardCreate(p)
       \/ CreateSettle(p)
       \/ CardConfirm(p)
       \/ ConfirmSettle(p)
  \/ GatewayAdvance

SpecCard == InitCard /\ [][NextCard]_vars

\* ---- the earlier v5 build (unnamed/part_002) ------------------------------
\* process.env of part_002 with the gateway configured (its handlers cut
\* the date string and never read the server's zone)
EnvsPart002 ==
  { [server |-> "part_002", tz |-> 0, stripe |-> TRUE, mail |-> m] : m \in BOOLEAN }

\* the records part_002 pushes: name and phone cut to length, not trimmed
RecordPart002Cash(date, b) ==
  [date |-> date, name |-> Slice(b.name, NameMax), phone |-> Slice(b.phone, PhoneMax),
   method |-> "cash", deposit |-> 0]

RecordPart002Card(date, b, id) ==
  [date |-> date, name |-> Slice(b.name, NameMax), phone |-> Slice(b.phone, PhoneMax),
   method |-> "card", deposit |-> DepositRecorded, stripePaymentId |-> id]

\* an intent create-payment-intent of part_002 made for day d
IntentPart002(d) ==
  [status |-> "requires_payment_method", date |-> Slice10(d), amount |-> DepositCents,
   metadata |-> [date |-> Slice10(d), name |-> Slice(NameAl, NameMax),
                 phone |-> Slice(PhoneGood, PhoneMax), service |-> ServiceLabel]]

\* book-cash of part_002: the checks of v5, no try/catch
BookCashPart002(p) ==
  /\ Free(p)
  /\ \E b \in CashBodies, rok \in ReadOutcomes, wok \in WriteOutcomes :
       LET v == ValidateV5(b)
           sanitizedDate == Slice10(b.date)
           bookings == readBookings(rok)
       IN  IF v = Throws
             THEN /\ req' = Escaped(p, "cash")
                  /\ UNCHANGED <<env, file, fileState, intents, avail, client>>
           ELSE IF v # "ok" THEN Reply(p, "cash", NoDate, 400, v, NoIntent)
           ELSE IF HasDate(bookings, sanitizedDate)
             THEN Reply(p, "cash", sanitizedDate, 409, AlreadyBooked, NoIntent)
           ELSE Book(p, "cash", b, sanitizedDate,
                     RecordPart002Cash(sanitizedDate, b), bookings, wok, NoIntent)

\* confirm-payment of part_002 up to await stripe.paymentIntents.retrieve
ConfirmPart002(p) ==
  /\ Free(p)
  /\ \E b \in CardConfirmBodies \cup {Body(NoDate, NameAl, PhoneGood, <<>>, 1)} :
       ConfirmHosted(p, b)

\* confirm-payment of part_002 after the retrieve: once the record is
\* pushed and written, the argument of sendEmailNotification reads
\* sanitizedEmail, which the handler never declares; the ReferenceError
\* lands in the catch, which answers 500.
ConfirmSettlePart002(p) ==
  /\ req[p].pc = "retrieve"
  /\ \E gok \in BOOLEAN, rok \in ReadOutcomes, wok \in WriteOutcomes :
       LET b == req[p].body
           id == req[p].id
           sanitizedDate == Slice10(b.date)
           bookings == readBookings(rok)
       IN  IF ~gok \/ intents[id].status = "none"
             THEN Reply(p, "confirm", NoDate, 500, "Payment confirmation failed.", id)
           ELSE IF ~IsSucceeded(intents[id])
             THEN Reply(p, "confirm", NoDate, 400, NotCompleted, id)
           ELSE IF HasDate(bookings, sanitizedDate)
             THEN Reply(p, "confirm", sanitizedDate, 409, AlreadyBooked, id)
           ELSE /\ writeBookings(
                     Append(bookings, RecordPart002Card(sanitizedDate, b, id)), wok)
                /\ req' = Answered(p, "confirm", NoDate, 500,
                                   "Payment confirmation failed.", id)
                /\ UNCHANGED <<env, intents, avail, client>>

\* part_002 serving customers whose intents the gateway already holds
InitPart002 ==
  /\ env \in EnvsPart002
  /\ file = <<>>
  /\ fileState = "absent"
  /\ intents \in [IntentIds -> {NoIntentYet} \cup {IntentPart002(d) : d \in CardDays}]
  /\ req = [p \in Slots |-> Idle]
  /\ avail = NoAvail
  /\ client = NoClient

NextPart002 ==
  \/ \E p \in Slots :
       \/ BookCashPart002(p)
       \/ ConfirmPart002(p)
       \/ ConfirmSettlePart002(p)
       \/ MailSettle(p)
  \/ GatewayAdvance

SpecPart002 == InitPart002 /\ [][NextPart002]_vars

\* ---- the browser client: card payment -------------------------------------
\* client.setup is where setupStripe is ("key": awaiting GET stripe-key,
\* "create": awaiting create-payment-intent, "ready" after it attached the
\* listener, "failed" after its catch), client.submit where
\* handlePaymentSubmit is ("gateway": awaiting stripe.confirmPayment,
\* "confirm": awaiting confirm-payment).  error and id are what the last
\* stripe.confirmPayment returned and what the URL held, date the date of
\* the confirm-payment body.
KeyAnswers == {"key", "empty", "fails"}
CreateAnswers == {"success", "failure", "fails"}

\* The customer clicks an open day: selectedDate = day.date; renderActions()
\* builds a new payment form (no listener on it) and starts setupStripe.
\* One setupStripe runs at a time.
RenderActions(d) ==
  /\ client.setup \notin {"key", "create"}
  /\ client' = [client EXCEPT !.selectedDate = d, !.listener = FALSE, !.setup = "key"]
  /\ UNCHANGED <<env, file, fileState, intents, req, avail>>

\* setupStripe after GET /api/stripe-key: no key or a failed fetch ends in
\* the catch, an empty prompt returns, otherwise create-payment-intent is
\* sent.
SetupStripeKey(k, prompts) ==
  /\ client.setup = "key"
  /\ client' = [client EXCEPT !.setup =
                  IF k # "key" THEN "failed"
                  ELSE IF ~prompts THEN "idle" ELSE "create"]
  /\ UNCHANGED <<env, file, fileState, intents, req, avail>>

\* setupStripe after create-payment-intent: on success it builds the
\* elements and attaches handlePaymentSubmit to the form, otherwise it
\* throws into its catch.
SetupStripeCreate(a) ==
  /\ client.setup = "create"
  /\ client' = IF a = "success"
                 THEN [client EXCEPT !.elements = TRUE, !.listener = TRUE,
                                     !.setup = "ready"]
                 ELSE [client EXCEPT !.setup = "failed"]
  /\ UNCHANGED <<env, file, fileState, intents, req, avail>>

\* The form is submitted and its listener runs: handlePaymentSubmit up to
\* await stripe.confirmPayment (the button is disabled meanwhile).
HandlePaymentSubmit ==
  /\ client.listener /\ client.submit = "idle"
  /\ client' = [client EXCEPT !.submit = "gateway"]
  /\ UNCHANGED <<env, file, fileState, intents, req, avail>>

\* A handler that goes on to confirm-payment whatever the gateway returned.
HandlePaymentGatewayUnchecked(err, id) ==
  /\ client.submit = "gateway"
  /\ client' = [client EXCEPT !.error = err, !.id = id, !.submit = "confirm",
                              !.date = client.selectedDate]
  /\ UNCHANGED <<env, file, fileState, intents, req, avail>>

\* stripe.confirmPayment returns: with an error the handler shows it and
\* returns; without a payment_intent in the URL it throws into its catch;
\* otherwise it posts confirm-payment with the id and selectedDate.
HandlePaymentGateway(err, id) ==
  /\ client.submit = "gateway"
  /\ client' = IF err \/ id = NoIntent
                 THEN [client EXCEPT !.error = err, !.id = id, !.submit = "idle"]
                 ELSE [client EXCEPT !.error = err, !.id = id, !.submit = "confirm",
                                     !.date = client.selectedDate]
  /\ UNCHANGED <<env, file, fileState, intents, req, avail>>

\* confirm-payment answers: on success selectedDate = null and
\* renderActions() builds a new form and starts no setup.
HandlePaymentAnswered(success) ==
  /\ client.submit = "confirm"
  /\ client' = IF success
                 THEN [client EXCEPT !.submit = "idle", !.selectedDate = NoDate,
                                     !.listener = FALSE]
                 ELSE [client EXCEPT !.submit = "idle"]
  /\ UNCHANGED <<env, file, fileState, intents, req, avail>>

InitClient ==
  /\ env \in {e \in Envs : e.server = "v6" /\ e.tz = 0 /\ e.stripe /\ ~e.mail}
  /\ file = <<>>
  /\ fileState = "absent"
  /\ intents = [i \in IntentIds |-> NoIntentYet]
  /\ req = [p \in Slots |-> Idle]
  /\ avail = NoAvail
  /\ client = NoClient

NextClient ==
  \/ \E d \in CardDays : RenderActions(d)
  \/ \E k \in KeyAnswers, prompts \in BOOLEAN : SetupStripeKey(k, prompts)
  \/ \E a \in CreateAnswers : SetupStripeCreate(a)
  \/ HandlePaymentSubmit
  \/ \E err \in BOOLEAN, id \in IntentIds \cup {NoIntent} : HandlePaymentGateway(err, id)
  \/ \E success \in BOOLEAN : HandlePaymentAnswered(success)

SpecClient == InitClient /\ [][NextClient]_vars

\* ==== claims ==============================================================

\* the handler of slot p takes a step
Acts(p) == req'[p] # req[p]

\* C1: on the hosted servers, whatever the order and interleaving of book-cash
\* and confirm-payment requests and whatever the disk does, no two records of
\* the ledger carry the same date.
C1_OneRecordPerDate ==
  env.server \in Hosted =>
    \A i, j \in 1..Len(Ledger) : i # j => Ledger[i].date # Ledger[j].date

\* C1 witness: both booking paths have appended, and a later request for a
\* booked date was turned away.
C1_Witness ==
  /\ env.server \in Hosted
  /\ \E i, j \in 1..Len(Ledger) : Ledger[i].method = "cash" /\ Ledger[j].method = "card"
  /\ \E p \in Slots : req[p].code = 409

\* C2: of the concurrent book-cash requests with valid name and phone for one
\* date, at most one is answered with success and the others get the 409
\* conflict.
C2_AtMostOneCashSuccess ==
  env.server \in Hosted =>
    \A p, q \in Slots :
      ( /\ p # q
        /\ req[p].pc = "done" /\ req[p].kind = "cash"
        /\ req[q].pc = "done" /\ req[q].kind = "cash"
        /\ req[p].date >= 0 /\ req[p].date = req[q].date
        /\ req[p].code = 200 )
      => req[q].code = 409

\* C3: confirm-payment appends only when the status it retrieved is
\* 'succeeded'; for any other retrieved status it answers 400 'Payment not
\* completed.' and leaves the ledger as it is; every card record of v6
\* carries the id of an intent the gateway reports as succeeded.
C3_ConfirmStep ==
  \A p \in Slots :
    /\ \A gok \in BOOLEAN, rok \in ReadOutcomes, wok \in WriteOutcomes :
         ( /\ req[p].pc = "retrieve"
           /\ ConfirmSettleWith(p, gok, rok, wok)
           /\ gok
           /\ intents[req[p].id].status \notin {"none", "succeeded"} )
         => /\ req'[p].pc = "done" /\ req'[p].code = 400 /\ req'[p].msg = NotCompleted
            /\ UNCHANGED <<file, fileState>>
    /\ ( /\ req[p].pc = "retrieve" /\ Acts(p)
         /\ <<file, fileState>>' # <<file, fileState>> )
       => intents[req[p].id].status = "succeeded"

C3_CardRecordsPaid ==
  env.server = "v6" =>
    \A i \in 1..Len(Ledger) :
      Ledger[i].method = "card" =>
        /\ Ledger[i].stripePaymentId \in IntentIds
        /\ intents[Ledger[i].stripePaymentId].status = "succeeded"

C3_OnlySucceededBooks == [][C3_ConfirmStep]_vars /\ []C3_CardRecordsPaid

\* C3 witness: one confirm-payment was answered 'Payment not completed.' and
\* another produced a card record.
C3_Witness ==
  /\ env.server \in Hosted
  /\ \E p \in Slots : req[p].kind = "confirm" /\ req[p].msg = NotCompleted
  /\ \E i \in 1..Len(Ledger) : Ledger[i].method = "card"

\* C4: no step of create-payment-intent changes the ledger file, and a
\* request is turned away as already booked only when the ledger holds a
\* record for its date: an intent never reserves its date.
C4_Step ==
  \A p \in Slots :
    /\ (Acts(p) /\ req'[p].kind = "create") => UNCHANGED <<file, fileState>>
    /\ (Acts(p) /\ req'[p].code = 409) => HasDate(Ledger, req'[p].date)

C4_IntentNeverBooks == [][C4_Step]_vars

\* C4 witness: an intent was created for a date and answered with success,
\* and afterwards a cash request booked that very date.
C4_Witness ==
  /\ env.server \in Hosted
  /\ \E i \in IntentIds, p \in Slots :
       /\ intents[i].status = "requires_payment_method"
       /\ req[p].kind = "cash" /\ req[p].code = 200
       /\ req[p].date = intents[i].date

\* C5: on both booking paths a request whose date has a record when the
\* handler checks is answered 409 and appends nothing (for confirm-payment:
\* with a succeeded intent).
C5_Step ==
  \A p \in Slots, rok \in ReadOutcomes, wok \in WriteOutcomes :
    /\ \A b \in CashBodies :
         ( /\ env.server \in Hosted
           /\ Free(p) /\ BookCashHosted(p, b, rok, wok)
           /\ Validate(b) = "ok"
           /\ SanitizedDate(b) >= 0
           /\ HasDate(Ledger, SanitizedDate(b)) )
         => /\ req'[p].code = 409
            /\ UNCHANGED <<file, fileState>>
    /\ ( /\ req[p].pc = "retrieve" /\ ConfirmSettleWith(p, TRUE, rok, wok)
         /\ intents[req[p].id].status = "succeeded"
         /\ SanitizedDate(req[p].body) >= 0
         /\ HasDate(Ledger, SanitizedDate(req[p].body)) )
       => /\ req'[p].code = 409
          /\ UNCHANGED <<file, fileState>>

C5_BookedDateConflicts == [][C5_Step]_vars

\* C6: once a book-cash for a date was answered with success, the same
\* request again is answered 409 and the ledger holds exactly one record for
\* the date.
C6_Step ==
  \A p, q \in Slots, b \in CashBodies, rok \in ReadOutcomes, wok \in WriteOutcomes :
    ( /\ env.server \in Hosted
      /\ req[q].pc = "done" /\ req[q].kind = "cash" /\ req[q].code = 200
      /\ req[q].date >= 0
      /\ Free(p) /\ BookCashHosted(p, b, rok, wok)
      /\ Validate(b) = "ok"
      /\ SanitizedDate(b) = req[q].date )
    => /\ req'[p].code = 409
       /\ CountDate(Ledger', req[q].date) = 1

C6_CashRetryConflicts == [][C6_Step]_vars

\* C7: a confirm-payment that goes on to its success answer, the ledger
\* file read and written without a fault, has appended exactly one record,
\* with method card and the deposit in minor units, 25000, the amount of its
\* intent.
C7_Step ==
  \A p \in Slots :
    ( /\ env.server \in Hosted
      /\ req[p].pc = "retrieve" /\ ConfirmSettleWith(p, TRUE, TRUE, TRUE)
      /\ req'[p].pc = "mail" \/ req'[p].code = 200 )
    => /\ Len(Ledger') = Len(Ledger) + 1
       /\ Ledger'[Len(Ledger')].method = "card"
       /\ Ledger'[Len(Ledger')].deposit = DepositCents
       /\ Ledger'[Len(Ledger')].deposit = intents[req[p].id].amount

C7_CardRecordDeposit == [][C7_Step]_vars

\* the days availability walks for query q from today: offsets 1..N on v6,
\* 0..N-1 on v5, never more than MaxDays of them
Horizon(q) == IF q.kind = "absent" THEN DefaultDays ELSE q.n
Window(today, q) ==
  IF env.server = "v6" THEN (today + 1)..(today + Min(Horizon(q), MaxDays))
  ELSE today..(today + Min(Horizon(q), MaxDays) - 1)

\* C8: in the answer of the hosted builds an entry is booked exactly when the
\* ledger, as it is at the time of the request, holds a record with the
\* entry's date.
C8_BookedIffInLedger ==
  (avail.asked /\ env.server \in Hosted) =>
    \A k \in 1..Len(avail.days) :
      avail.days[k].booked <=> HasDate(Ledger, avail.days[k].date)

\* C9: no date that availability returns, on any build, for any horizon, any
\* today and any ledger, falls on a Sunday.
C9_NoSundayListed ==
  avail.asked =>
    /\ \A k \in 1..Len(avail.days) : avail.days[k].date % 7 # 0
    /\ \A k \in 1..Len(avail.available) : avail.available[k] % 7 # 0

\* C10: with an empty ledger (the file absent or holding no record) the
\* hosted builds return exactly one entry for every day of the window that
\* is not a Sunday, every entry with booked=false and none beyond the days
\* walked; for horizon 7 and today a Monday there are exactly 6 entries.
C10_EmptyLedgerAllOpen ==
  (avail.asked /\ env.server \in Hosted /\ Ledger = <<>> /\ avail.query.kind # "text") =>
    /\ \A d \in Window(avail.today, avail.query) :
         d % 7 # 0 =>
           Cardinality({k \in 1..Len(avail.days) : avail.days[k].date = d}) = 1
    /\ \A k \in 1..Len(avail.days) : avail.days[k].booked = FALSE
    /\ Horizon(avail.query) <= MaxDays =>
         Len(avail.days) =
           Cardinality({d \in Window(avail.today, avail.query) : d % 7 # 0})
    /\ (avail.query = Query("int", 7) /\ avail.today = 1) => Len(avail.days) = 6

\* C10 witness: the ledger file does not exist, the horizon asked for is 7,
\* today is a Monday, and the answer has its 6 entries.
C10_Witness ==
  /\ avail.asked /\ env.server \in Hosted /\ fileState = "absent"
  /\ avail.query = Query("int", 7) /\ avail.today = 1
  /\ Len(avail.days) = 6

\* C11: when the notification fails (transport unreachable, send rejected or
\* timed out) the handler that waits for it goes on exactly as after a sent
\* one: book-cash and confirm-payment answer 200 with their success message
\* (v5 first tries the customer's confirmation), and the step leaves the
\* ledger file, with the record written before the notification, as it is.
C11_Step ==
  \A p \in Slots :
    (req[p].pc \in {"mail", "mail2"} /\ MailSettleWith(p, FALSE)) =>
      /\ \/ req'[p].pc = "mail2" /\ req[p].pc = "mail" /\ env.server = "v5"
         \/ /\ req'[p].pc = "done" /\ req'[p].code = 200
            /\ req'[p].msg = (IF req[p].kind = "cash" THEN CashSaved ELSE CardSaved)
            /\ req'[p].date = req[p].date
      /\ UNCHANGED <<file, fileState>>

C11_MailFailureHarmless == [][C11_Step]_vars

\* C11 witness: a cash and a card booking were both answered with success
\* on a server with email credentials, their records in the ledger.
C11_Witness ==
  /\ env.mail /\ env.server \in Hosted
  /\ \E p, q \in Slots :
       /\ req[p].kind = "cash" /\ req[p].code = 200
       /\ req[q].kind = "confirm" /\ req[q].code = 200
       /\ HasDate(Ledger, req[p].date) /\ HasDate(Ledger, req[q].date)

\* C12: when the write of the ledger file fails in book-cash or
\* confirm-payment (a valid request for a date the handler found free), the
\* client gets a failure response, never the success answer nor a wait for
\* the notification that leads to it, and the ledger file keeps its contents.
C12_Step ==
  \A p \in Slots, rok \in ReadOutcomes :
    /\ \A b \in CashBodies :
         ( /\ env.server \in Hosted
           /\ Free(p) /\ BookCashHosted(p, b, rok, FALSE)
           /\ Validate(b) = "ok"
           /\ ~HasDate(readBookings(rok), SanitizedDate(b)) )
         => /\ req'[p].pc = "done" /\ req'[p].code >= 500
            /\ UNCHANGED <<file, fileState>>
    /\ ( /\ req[p].pc = "retrieve" /\ ConfirmSettleWith(p, TRUE, rok, FALSE)
         /\ IsSucceeded(intents[req[p].id])
         /\ ~HasDate(readBookings(rok), SanitizedDate(req[p].body)) )
       => /\ req'[p].pc = "done" /\ req'[p].code >= 500
          /\ UNCHANGED <<file, fileState>>

C12_WriteFailureReported == [][C12_Step]_vars

\* C13: no step removes or changes a record of the ledger: every record the
\* file holds before a step is in the file after it.
C13_Step ==
  \A i \in 1..Len(Ledger) : \E j \in 1..Len(Ledger') : Ledger'[j] = Ledger[i]

C13_RecordsKept == [][C13_Step]_vars

\* C14: what a handler passes to writeBookings is what the next
\* readBookings returns (as a set of records), whatever the disk does.
C14_Step ==
  \A p \in Slots, rok \in ReadOutcomes, wok \in WriteOutcomes, rnext \in ReadOutcomes :
    \A b \in CashBodies :
      ( /\ env.server \in Hosted
        /\ Free(p) /\ BookCashHosted(p, b, rok, wok)
        /\ Validate(b) = "ok"
        /\ ~HasDate(readBookings(rok), SanitizedDate(b)) )
      => LET written == Append(readBookings(rok),
                          IF env.server = "v6"
                            THEN RecordV6(SanitizedDate(b), b, "cash", 0, NoIntent)
                            ELSE RecordV5(SanitizedDate(b), "cash", 0))
             readBack == IF rnext THEN Ledger' ELSE <<>>
         IN  {written[k] : k \in 1..Len(written)}
               = {readBack[k] : k \in 1..Len(readBack)}

C14_StoreRoundTrip == [][C14_Step]_vars

\* C15: no fault leaves a handler unhandled: every request that is over has
\* its response, and a request that failed has a structured one, a status
\* from 400 up with a message.
C15_NoFaultEscapes ==
  \A p \in Slots :
    /\ req[p].pc # "escaped"
    /\ (req[p].pc = "done" /\ req[p].code >= 400) => req[p].msg # ""

\* a body whose name or phone is missing, or whose date is missing or names
\* no day
Malformed(b) ==
  b.name = <<>> \/ b.phone = <<>> \/ b.date \in {NoDate, Garbage}

\* C16: a book-cash, create-payment-intent or confirm-payment request with
\* such a body is answered 400 at once: the handler does not write the
\* ledger, does not go on to the gateway and does not go on to the
\* notification.
C16_Step ==
  \A p \in Slots, rok \in ReadOutcomes, wok \in WriteOutcomes :
    /\ \A b \in CashBodies :
         ( /\ env.server \in Hosted /\ Malformed(b)
           /\ Free(p) /\ BookCashHosted(p, b, rok, wok) )
         => /\ req'[p].pc = "done" /\ req'[p].code = 400
            /\ UNCHANGED <<file, fileState>>
    /\ \A b \in CreateBodies :
         ( /\ env.server \in Hosted /\ env.stripe /\ Malformed(b)
           /\ Free(p) /\ CreateHosted(p, b, rok) )
         => req'[p].pc = "done" /\ req'[p].code = 400
    /\ \A b \in ConfirmBodies :
         ( /\ env.server \in Hosted /\ env.stripe /\ Malformed(b)
           /\ Free(p) /\ ConfirmHosted(p, b) )
         => req'[p].pc = "done" /\ req'[p].code = 400

C16_ValidationFirst == [][C16_Step]_vars

\* C17: a request that meets a gateway that is not configured, that throws
\* or that returns data that is no payment intent is answered with the
\* server-side failure of the payment system (status 500 with its message),
\* never with success, and its step leaves the ledger file alone.
C17_Step ==
  \A p \in Slots :
    /\ \A b \in CreateBodies, rok \in ReadOutcomes :
         (env.server \in Hosted /\ ~env.stripe /\ Free(p) /\ CreateHosted(p, b, rok))
           => req'[p].code = 500 /\ req'[p].msg = Unavailable
    /\ \A b \in ConfirmBodies :
         (env.server \in Hosted /\ ~env.stripe /\ Free(p) /\ ConfirmHosted(p, b))
           => req'[p].code = 500 /\ req'[p].msg = Unavailable
    /\ \A g \in CreateOutcomes \ {"intent"} :
         CreateSettleWith(p, g)
           => /\ req'[p].pc = "done" /\ req'[p].code = 500 /\ req'[p].msg # ""
              /\ UNCHANGED <<file, fileState>>
    /\ \A rok \in ReadOutcomes, wok \in WriteOutcomes :
         (req[p].pc = "retrieve" /\ ConfirmSettleWith(p, FALSE, rok, wok))
           => /\ req'[p].pc = "done" /\ req'[p].code = 500 /\ req'[p].msg # ""
              /\ UNCHANGED <<file, fileState>>

C17_GatewayFailureSurfaced == [][C17_Step]_vars

\* What the operator gets to see of a request answered with r: the catch
\* blocks log the error (console.error), a booking goes on to the
\* notification (the message, or the log line that it was skipped); every
\* other return of the handlers logs nothing and notifies nobody.
OperatorTrace(r) ==
  IF r.msg \in {"Cash booking failed.", "Payment processing error.",
                "Payment confirmation failed."} THEN "console.error"
  ELSE IF r.msg \in {CashSaved, CardSaved} THEN "notification"
  ELSE "none"

\* C18: a confirm-payment turned away with 409 (it found the payment
\* succeeded and the date taken) has left a trace for the operator.
C18_CapturedUnbookedSurfaced ==
  \A p \in Slots :
    (env.server \in Hosted /\ req[p].pc = "done" /\ req[p].kind = "confirm"
       /\ req[p].code = 409)
      => OperatorTrace(req[p]) # "none"

\* C19: when the ledger file exists and cannot be read, a booking request
\* that gets as far as reading it is answered with a failure (status 500 up)
\* and its step writes nothing.
C19_Step ==
  \A p \in Slots, wok \in WriteOutcomes :
    /\ \A b \in CashBodies :
         ( /\ env.server \in Hosted /\ fileState = "ok"
           /\ Free(p) /\ BookCashHosted(p, b, FALSE, wok)
           /\ Validate(b) = "ok" )
         => /\ req'[p].pc = "done" /\ req'[p].code >= 500
            /\ UNCHANGED <<file, fileState>>
    /\ ( /\ fileState = "ok"
         /\ req[p].pc = "retrieve" /\ ConfirmSettleWith(p, TRUE, FALSE, wok)
         /\ IsSucceeded(intents[req[p].id]) )
       => /\ req'[p].pc = "done" /\ req'[p].code >= 500
          /\ UNCHANGED <<file, fileState>>

C19_UnreadableLedgerUnavailable == [][C19_Step]_vars

\* C20: the metadata of every intent the gateway holds is the date of the
\* request and the fixed service label, nothing else: requests that differ
\* in name, phone or email only send the same metadata.
C20_MetadataWithoutPersonalData ==
  \A i \in IntentIds :
    intents[i].status # "none" =>
      intents[i].metadata = [date |-> intents[i].date, service |-> ServiceLabel]

\* C21: whatever days asks for, availability returns at most 90 entries and
\* none dated more than 90 days after today.
C21_HorizonCapped ==
  avail.asked =>
    /\ Len(avail.days) <= MaxDays /\ Len(avail.available) <= MaxDays
    /\ \A k \in 1..Len(avail.days) : avail.days[k].date <= avail.today + MaxDays
    /\ \A k \in 1..Len(avail.available) : avail.available[k] <= avail.today + MaxDays

\* C26: the entries of the hosted builds are in strictly increasing date
\* order, so the first entry with booked=false (the client's firstOpen) is
\* the earliest unbooked day among the entries.
C26_EntriesAscending ==
  (avail.asked /\ env.server \in Hosted) =>
    /\ \A k \in 1..(Len(avail.days) - 1) : avail.days[k].date < avail.days[k + 1].date
    /\ \A k \in 1..Len(avail.days) :
         ( /\ ~avail.days[k].booked
           /\ \A i \in 1..(k - 1) : avail.days[i].booked )
         => \A j \in 1..Len(avail.days) :
              ~avail.days[j].booked => avail.days[k].date <= avail.days[j].date

\* C26 witness: an answer of several entries whose first is booked, so that
\* the earliest open day is a later one.
C26_Witness ==
  /\ avail.asked /\ env.server \in Hosted
  /\ Len(avail.days) >= 3
  /\ avail.days[1].booked /\ ~avail.days[2].booked

\* C27: an availability request leaves the ledger file as it is, and its
\* answer is a function of the ledger, the clock and the query: a second
\* call with the same three returns the same entries, whatever its read of
\* the file does.
C27_Step ==
  \A today \in Todays, late \in BOOLEAN, q \in Queries, rok \in ReadOutcomes :
    Availability(today, late, q, rok) =>
      /\ UNCHANGED <<file, fileState>>
      /\ \A again \in ReadOutcomes :
           AvailabilityAnswer(today, late, q, again) = avail'

C27_AvailabilityPure == [][C27_Step]_vars

\* C28: every build walks today+1 .. today+N: no entry is dated today or
\* earlier.
C28_TodayNeverListed ==
  avail.asked =>
    /\ \A k \in 1..Len(avail.days) : avail.days[k].date > avail.today
    /\ \A k \in 1..Len(avail.available) : avail.available[k] > avail.today

\* C22: on the hosted servers GET /api/stripe-key answers with the
\* publishable key when it is configured, and with a successful response
\* carrying an empty key when it is not.
C22_KeyOrEmpty ==
  env.server \in Hosted =>
    \A p \in Slots :
      (req[p].pc = "done" /\ req[p].kind = "key") =>
        /\ req[p].code = 200
        /\ req[p].msg = IF env.pk THEN PublishableKey ELSE ""

\* the record carries a gateway payment reference
HasPaymentRef(rec) ==
  "stripePaymentId" \in DOMAIN rec /\ rec.stripePaymentId # NoIntent

\* C23: on the hosted servers a record carries a gateway payment reference
\* exactly when its method is card, and every cash record has deposit 0.
C23_PaymentRefIffCard ==
  env.server \in Hosted =>
    \A i \in 1..Len(Ledger) :
      /\ HasPaymentRef(Ledger[i]) <=> Ledger[i].method = "card"
      /\ Ledger[i].method = "cash" => Ledger[i].deposit = 0

\* C24: while a handler waits for a notification, the 10 s timer that ends
\* the wait is pending: the wait is bounded and the request gets its
\* response even if the mail transport never answers.
C24_NotificationBounded ==
  \A p \in Slots :
    req[p].pc \in {"mail", "mail2"} => ENABLED MailTimeout(p)

\* C25: a handler hands the notification for date D to the transport only
\* once the ledger holds a record for D.
C25_Step ==
  \A p \in Slots :
    (req[p].pc # "mail" /\ req'[p].pc = "mail" /\ req'[p].date >= 0)
      => HasDate(Ledger', req'[p].date)

C25_NotifiedAfterPersisted == [][C25_Step]_vars

\* the form C29 gives for a phone: without spaces, hyphens and parentheses,
\* an optional "+" and then 1 to PhoneTailMax + 1 digits
PhoneForm(phone) ==
  LET t == Remove(phone, PhoneSeparators)
      u == IF t # <<>> /\ Head(t) = "+" THEN Tail(t) ELSE t
  IN  /\ Len(u) >= 1 /\ Len(u) <= PhoneTailMax + 1
      /\ \A i \in 1..Len(u) : u[i] \in Digits

\* C29: book-cash, given a date and a name that pass, rejects the phone
\* exactly when it is not of that form.
C29_Step ==
  \A p \in Slots, b \in CashBodies, rok \in ReadOutcomes, wok \in WriteOutcomes :
    ( /\ env.server \in Hosted /\ Free(p)
      /\ b.date # NoDate /\ b.name = NameAl
      /\ BookCashHosted(p, b, rok, wok) )
    => ( ( /\ req'[p].code = 400
           /\ req'[p].msg \in {"Please enter a valid phone number.",
                               "Please enter your phone number."} )
         <=> ~PhoneForm(b.phone) )

C29_PhoneFormExactly == [][C29_Step]_vars

\* C30: the ledger of the local development server holds at most one record
\* per date.
C30_LocalOneRecordPerDate ==
  env.server = "local" =>
    \A i, j \in 1..Len(Ledger) : i # j => Ledger[i].date # Ledger[j].date

\* C31: the read, the duplicate check, the append and the write of a
\* booking are one step of one handler.  Every step that changes the ledger
\* file is taken by a single handler that was not suspended at a gateway
\* create or at a notification (it starts a request, or resumes from the
\* gateway retrieve), and what it writes is what it read in that same step
\* (the ledger as it is, or [] when the read failed) plus one record; the
\* handler leaves the step answered or waiting for the notification.
C31_Step ==
  (file' # file \/ fileState' # fileState) =>
    \E p \in Slots :
      /\ \A q \in Slots \ {p} : req'[q] = req[q]
      /\ req[p].pc \in {"idle", "done", "escaped", "retrieve"}
      /\ req'[p].pc \in {"mail", "done"}
      /\ fileState' = "ok" /\ Len(file') >= 1
      /\ SubSeq(file', 1, Len(file') - 1) \in {Ledger, <<>>}

C31_CheckThenAppendAtomic == [][C31_Step]_vars

\* C31 witness: a confirm-payment was suspended at the gateway while a
\* book-cash read, checked, appended and wrote; resumed, it read the ledger
\* with that record in it and answered 409.
C31_Witness ==
  /\ env.server \in Hosted
  /\ Len(Ledger) = 1
  /\ req[1].pc = "done" /\ req[1].kind = "confirm" /\ req[1].code = 409
  /\ req[2].pc = "done" /\ req[2].kind = "cash" /\ req[2].code = 200

\* C32: one payment yields at most one booking: no two records of the v6
\* ledger carry the same payment intent id, and the ledger of a hosted
\* build never holds more card records than there are paid intents.
C32_OneBookingPerPayment ==
  env.server \in Hosted =>
    /\ \A i, j \in 1..Len(Ledger) :
         (i # j /\ HasPaymentRef(Ledger[i]))
           => Ledger[i].stripePaymentId # Ledger[j].stripePaymentId
    /\ Cardinality({ i \in 1..Len(Ledger) : Ledger[i].method = "card" })
         <= Cardinality({ i \in IntentIds : intents[i].status = "succeeded" })

\* C33: confirm-payment books only the date the intent was created for: the
\* record a confirm-payment appends carries the date given to
\* create-payment-intent for its intent.
C33_Step ==
  \A p \in Slots :
    (req[p].pc = "retrieve" /\ file' # file)
      => file'[Len(file')].date = intents[req[p].id].date

C33_ConfirmBooksIntentDate == [][C33_Step]_vars

\* C34: every record a hosted build appends has a date availability could
\* offer as open: whatever day the server's clock shows when the handler
\* runs, the date is not a Sunday and is later than today.  Stated for a
\* server whose zone is UTC, where the date stored is the date requested.
C34_Step ==
  \A today \in Todays :
    ( /\ env.server \in Hosted /\ env.tz = 0
      /\ file' # file /\ Len(file') >= 1
      /\ file'[Len(file')].date >= 0 )
    => /\ getDay(file'[Len(file')].date) # 0
       /\ file'[Len(file')].date > today

C34_RecordsWithinOpenDays == [][C34_Step]_vars

\* C35: for a book-cash whose date is a day as availability lists it, in
\* every time zone of the server, the date echoed in the success response
\* and the date of the record appended are that day.
C35_Step ==
  \A p \in Slots, b \in CashBodies, rok \in ReadOutcomes, wok \in WriteOutcomes :
    ( /\ env.server \in Hosted /\ Free(p)
      /\ b.date \in Days
      /\ BookCashHosted(p, b, rok, wok)
      /\ req'[p].pc \in {"mail", "done"} /\ req'[p].code \in {0, 200} )
    => /\ req'[p].date = b.date
       /\ file' # file => file'[Len(file')].date = b.date

C35_DateKept == [][C35_Step]_vars

\* C37: the client sends confirm-payment only once a create-payment-intent
\* has answered success (the elements exist), stripe.confirmPayment has
\* returned without error and a payment intent id is at hand; after an
\* error of the gateway no confirm-payment is sent.
C37_Step ==
  (client.submit # "confirm" /\ client'.submit = "confirm")
    => /\ client.elements
       /\ ~client'.error
       /\ client'.id # NoIntent

C37_ClientProtocolOrder == [][C37_Step]_vars

\* C37 witness: a confirm-payment is in flight for the chosen day, with the
\* payment intent id the URL held.
C37_Witness ==
  /\ client.submit = "confirm"
  /\ client.elements /\ client.id # NoIntent
  /\ client.date \in CardDays

\* C36: a book-cash or confirm-payment that answers with a failure leaves
\* the ledger as it was: no step that changes the ledger file is the step
\* in which a handler answers with a status other than 200.
C36_Step ==
  (file' # file \/ fileState' # fileState) =>
    \A p \in Slots :
      (req'[p] # req[p] /\ req'[p].pc = "done" /\ req'[p].kind \in {"cash", "confirm"})
        => req'[p].code = 200

C36_FailureLeavesLedger == [][C36_Step]_vars

====
